---------------------------- MODULE Spec2Model ----------------------------
(***************************************************************************)
(* A model of nef_theano.network.Network: the node registry, the wiring    *)
(* done by connect/learn, the compile-once step function (theano_tick)     *)
(* and the run loop, together with the pure helper compute_transform.      *)
(*                                                                         *)
(* Strings are sequences of tokens, so that name.split(':') and the        *)
(* "Probe%d" formatting are computed rather than assumed.  Times are       *)
(* counted in half-milliseconds: dt = 0.001 s is 2 units.  Python          *)
(* exceptions are the status strings "AssertionError", "KeyError",         *)
(* "AttributeError", "IndexError" and "ZeroDivisionError".                 *)
(***************************************************************************)
EXTENDS Integers, Sequences, FiniteSets, TLC

VARIABLES
    nodes,        \* self.nodes: name -> node id
    tick_nodes,   \* self.tick_nodes: sequence of node ids
    theano_tick,  \* self.theano_tick: None, or the compiled updates
    run_time,     \* self.run_time, in time units
    obj,          \* the node objects ever created, indexed by id
    pc,           \* position inside run: "idle", "loop", "end"
    rl,           \* locals of the run call in progress
    ret,          \* outcome of the last completed call
    hist,         \* history: what was called since the last run
    ct_args,      \* arguments of a compute_transform call
    ct_result,    \* its result
    cache,        \* the decoder cache: index_key -> (Ginv, A)
    dec           \* the compute_decoders call in progress, and its history

vars == <<nodes, tick_nodes, theano_tick, run_time, obj, pc, rl, ret, hist,
          ct_args, ct_result, cache, dec>>

-----------------------------------------------------------------------------
(* Bounds of the model *)

MaxNodes == 2
MaxConns == 1
MaxRunTime == 4
MaxDim == 2
MaxIdxLen == 2

-----------------------------------------------------------------------------
(* Python values *)

None == [tag |-> "None", v |-> <<>>]

\* an optional argument that was given
Given(tag, v) == [tag |-> tag, v |-> v]

Max(a, b) == IF a >= b THEN a ELSE b

Range(f) == {f[x] : x \in DOMAIN f}

\* self.dt = 0.001, in units of half a millisecond
dt == 2

\* default pstc of connect and learn, in the same units (0.01 s)
pstc_default == 20

-----------------------------------------------------------------------------
(* Names *)

Colon == ":"

\* "Probe%d" % i
Digits == <<"1", "2", "3", "4", "5", "6", "7", "8", "9">>

ProbeName(i) == <<"Probe", Digits[i]>>

\* name.split(':') : the sequence of the segments between the separators
RECURSIVE SplitFrom(_, _, _)
SplitFrom(s, k, cur) ==
    IF k > Len(s) THEN <<cur>>
    ELSE IF s[k] = Colon THEN <<cur>> \o SplitFrom(s, k + 1, <<>>)
    ELSE SplitFrom(s, k + 1, Append(cur, s[k]))

Split(s) == SplitFrom(s, 1, <<>>)


-----------------------------------------------------------------------------
(* compute_transform *)

\* index_pre / index_post arguments: None, a single integer, or a list
IdxNone == None
IdxInt(k) == [tag |-> "int", v |-> <<k>>]
IdxList(l) == [tag |-> "list", v |-> l]

Raise(e) == [status |-> e, value |-> <<>>]
Return(v) == [status |-> "ok", value |-> v]

\* Python list indexing lst[k] on a list of length n: the 0-based position,
\* counting from the end when k is negative, or -1 when it raises IndexError
PyIndex(k, n) ==
    IF 0 <= k /\ k < n THEN k
    ELSE IF k < 0 /\ k >= 0 - n THEN k + n
    ELSE -1

\* the list an index argument stands for
IndexList(index, dim) ==
    IF index.tag = "None" THEN [k \in 1..dim |-> k - 1] ELSE index.v

\* the for loop of compute_transform, from iteration i on
\* compute_transform with a loop that stops at the shorter index list
compute_transform_shorter(dim_pre, dim_post, weight, index_pre, index_post) ==
    LET transform == [r \in 1..dim_post |-> [c \in 1..dim_pre |-> 0]]
        ipre == IndexList(index_pre, dim_pre)
        ipost == IndexList(index_post, dim_post)
    IN  IF Len(ipre) = 0 \/ Len(ipost) = 0 THEN Return(transform)
        ELSE Return([r \in 1..dim_post |-> [c \in 1..dim_pre |->
                 IF \E i \in 1..(IF Len(ipre) < Len(ipost) THEN Len(ipre)
                                  ELSE Len(ipost)) :
                        /\ PyIndex(ipre[i], dim_pre) = c - 1
                        /\ PyIndex(ipost[i], dim_post) = r - 1
                 THEN weight ELSE 0]])

RECURSIVE TransformLoop(_, _, _, _, _, _, _, _)
TransformLoop(transform, i, n, index_pre, index_post, weight, dim_pre, dim_post) ==
    IF i >= n THEN Return(transform)
    ELSE IF Len(index_pre) = 0 \/ Len(index_post) = 0
    THEN Raise("ZeroDivisionError")
    ELSE LET pre == PyIndex(index_pre[(i % Len(index_pre)) + 1], dim_pre)
             post == PyIndex(index_post[(i % Len(index_post)) + 1], dim_post)
         IN  IF pre = -1 \/ post = -1 THEN Raise("IndexError")
             ELSE TransformLoop(
                      [transform EXCEPT ![post + 1][pre + 1] = weight],
                      i + 1, n, index_pre, index_post, weight, dim_pre, dim_post)

compute_transform(dim_pre, dim_post, weight, index_pre, index_post) ==
    LET transform == [r \in 1..dim_post |-> [c \in 1..dim_pre |-> 0]]
        ipre == IndexList(index_pre, dim_pre)
        ipost == IndexList(index_post, dim_post)
    IN  TransformLoop(transform, 0, Max(Len(ipre), Len(ipost)),
                      ipre, ipost, weight, dim_pre, dim_post)

-----------------------------------------------------------------------------
(* Node objects.  The classes Ensemble, Input, SimpleNode and Probe live    *)
(* outside the two source files; their shape follows the data model.       *)

IdentityName == <<"X">>

NewOrigin(dimensions, func) == [dimensions |-> dimensions, func |-> func]

\* a freshly constructed node of the given class
NewNode(kind, name, dimensions) ==
    [kind |-> kind, name |-> name, dimensions |-> dimensions,
     origin |-> IF kind = "Probe" THEN <<>>
                ELSE (IdentityName :> NewOrigin(dimensions, "identity")),
     inputs |-> <<>>, learned |-> <<>>]

\* only an Ensemble has the hooks add_origin, add_filtered_input,
\* add_learned_termination and the attribute neurons
IsEnsemble(id) == obj[id].kind = "Ensemble"

-----------------------------------------------------------------------------
(* get_object *)

NodeRef(id) == [tag |-> "node", id |-> id, oname |-> <<>>]
OriginRef(id, oname) == [tag |-> "origin", id |-> id, oname |-> oname]
NoneRef == [tag |-> "None", id |-> 0, oname |-> <<>>]

\* a raised exception carries no value
RaiseRef(e) == [status |-> e, value |-> NoneRef]

\* what get_object does with a name of n segments, n > 2: no branch of the
\* if/elif matches, so the function falls off its end and returns None
ManySegments(n) == Return(NoneRef)

get_object(name) ==
    LET split == Split(name)
    IN  IF Len(split) = 1
        THEN IF name \in DOMAIN nodes THEN Return(NodeRef(nodes[name]))
             ELSE RaiseRef("KeyError")
        ELSE IF Len(split) = 2
        THEN IF split[1] \notin DOMAIN nodes THEN RaiseRef("KeyError")
             ELSE IF split[2] \notin DOMAIN obj[nodes[split[1]]].origin
             THEN RaiseRef("KeyError")
             ELSE Return(OriginRef(nodes[split[1]], split[2]))
        ELSE ManySegments(Len(split))

-----------------------------------------------------------------------------
(* The registry and the compiled step function *)

\* nodes[name] = id
Register(name, id) ==
    [n \in (DOMAIN nodes) \cup {name} |-> IF n = name THEN id ELSE nodes[n]]

\* what node.update() of one node contributes to the fused step function
NodeUpdate(id) ==
    [id |-> id, origins |-> DOMAIN obj[id].origin,
     inputs |-> obj[id].inputs, learned |-> obj[id].learned]

\* hasattr(node, 'update'): the nodes of tick_nodes run outside the fused
\* step function
HasUpdate(id) == IsEnsemble(id)

\* make_theano_tick: the updates of every registered node that has some,
\* fused
make_theano_tick ==
    [tag |-> "function",
     v |-> {NodeUpdate(id) : id \in {x \in Range(nodes) : HasUpdate(x)}}]

RECURSIVE SumConns(_)
SumConns(k) ==
    IF k = 0 THEN 0
    ELSE Len(obj[k].inputs) + Len(obj[k].learned) + SumConns(k - 1)

\* the number of connections registered so far
NumConns == SumConns(Len(obj))

NewId == Len(obj) + 1

\* the locals of run when no call is in progress
NoRun == [time |-> 0, steps |-> 0, i |-> 0, j |-> 0, built |-> 0, fused |-> 0,
          log |-> <<>>, prev |-> <<>>]

\* the locals of compute_decoders when no call was made yet, with the
\* history of the cache: how many calls began, the keys they used, and per
\* index_key how often the activity matrix was computed and stored (every
\* count past the second is the second)
NoSolve ==
    [pc |-> "idle", status |-> "none", self |-> <<>>, func |-> <<>>,
     eval_points |-> <<>>, key |-> <<>>, index |-> 0, paths |-> <<>>,
     decoders |-> <<>>, first |-> FALSE, solves |-> 0, seen |-> {},
     computed |-> <<>>, stored |-> <<>>]

\* the outcome of a call: how far it got, how it ended, what it returned;
\* arg is the name the call was given (get_object and make_probe only)
Called(op, arg, stage, status, value) ==
    [op |-> op, arg |-> arg, stage |-> stage, status |-> status,
     value |-> value]

Done(op, stage, status, value) == Called(op, None, stage, status, value)

\* the history after a call that is not run: since the last completed run,
\* touched by any make or connect call, mutated by those that completed
Touch(touched, mutated) ==
    [hist EXCEPT !.touched = @ \/ touched, !.mutated = @ \/ mutated]

Init ==
    /\ nodes = <<>>
    /\ tick_nodes = <<>>
    /\ theano_tick = None
    /\ run_time = 0
    /\ obj = <<>>
    /\ pc = "idle"
    /\ rl = NoRun
    /\ ret = Done("init", "done", "ok", NoneRef)
    /\ hist = [touched |-> FALSE, mutated |-> FALSE, last_built |-> -1,
               requested |-> 0, func_connects |-> {}]
    /\ ct_args = None
    /\ ct_result = None
    /\ cache = <<>>
    /\ dec = NoSolve

-----------------------------------------------------------------------------
(* add, make, make_input, make_probe *)

\* add(node): tick_nodes.append(node); nodes[node.name] = node
AddNode(node) ==
    /\ obj' = Append(obj, node)
    /\ tick_nodes' = Append(tick_nodes, NewId)
    /\ nodes' = Register(node.name, NewId)

\* a make that keeps the compiled function
MakeTickKept == theano_tick

\* theano_tick after make
MakeTick == None

\* theano_tick after add: add does not touch it
AddTick == theano_tick

Make(name) ==
    /\ pc = "idle"
    /\ Len(obj) < MaxNodes
    /\ theano_tick' = MakeTick
    /\ obj' = Append(obj, NewNode("Ensemble", name, 1))
    /\ nodes' = Register(name, NewId)
    /\ ret' = Done("make", "done", "ok", NoneRef)
    /\ hist' = Touch(TRUE, TRUE)
    /\ UNCHANGED <<tick_nodes, run_time, pc, rl, ct_args, ct_result, cache, dec>>

Add(name) ==
    /\ pc = "idle"
    /\ Len(obj) < MaxNodes
    /\ AddNode(NewNode("SimpleNode", name, 1))
    /\ theano_tick' = AddTick
    /\ ret' = Done("add", "done", "ok", NoneRef)
    /\ hist' = Touch(FALSE, FALSE)
    /\ UNCHANGED <<run_time, pc, rl, ct_args, ct_result, cache, dec>>

MakeInput(name) ==
    /\ pc = "idle"
    /\ Len(obj) < MaxNodes
    /\ AddNode(NewNode("Input", name, 1))
    /\ theano_tick' = AddTick
    /\ ret' = Done("make_input", "done", "ok", NoneRef)
    /\ hist' = Touch(FALSE, FALSE)
    /\ UNCHANGED <<run_time, pc, rl, ct_args, ct_result, cache, dec>>

\* a make_probe that takes the first candidate name, taken or not
ProbeNameFirst(i, name) ==
    IF name.tag = "None" THEN ProbeName(i + 1) ELSE name.v

\* the while loop of make_probe, entered with counter i and the current name
RECURSIVE ProbeNameLoop(_, _)
ProbeNameLoop(i, name) ==
    IF name.tag = "None" \/ name.v \in DOMAIN nodes
    THEN ProbeNameLoop(i + 1, [tag |-> "name", v |-> ProbeName(i + 1)])
    ELSE name.v

MakeProbe(name) ==
    /\ pc = "idle"
    /\ Len(obj) < MaxNodes
    /\ AddNode(NewNode("Probe", ProbeNameLoop(0, name), 1))
    /\ theano_tick' = AddTick
    /\ ret' = Called("make_probe", name, "done", "ok", NodeRef(NewId))
    /\ hist' = Touch(FALSE, FALSE)
    /\ UNCHANGED <<run_time, pc, rl, ct_args, ct_result, cache, dec>>

\* a call of get_object by the user
GetObject(name) ==
    /\ pc = "idle"
    /\ LET r == get_object(name)
       IN  ret' = Called("get_object", Given("name", name),
                         IF r.status = "ok" THEN "done" ELSE "resolve",
                         r.status, r.value)
    /\ UNCHANGED <<nodes, tick_nodes, theano_tick, run_time, obj, pc, rl, hist,
                   ct_args, ct_result, cache, dec>>

-----------------------------------------------------------------------------
(* connect *)

FuncNames == {<<"f">>}

\* the two asserts that open connect
Contradicting(a) ==
    IF a.decoded_weight_matrix # None
    THEN ~(a.transform = None /\ a.weight = 1 /\ a.index_pre = None
           /\ a.index_post = None /\ a.func = None)
    ELSE a.transform # None
         /\ (a.weight # 1 \/ a.index_pre # None \/ a.index_post # None)

\* a connect call ends at one of four stages: "contract" (the opening
\* asserts failed), "resolve" (get_object raised), "wire" (a later
\* statement raised) or "done"
Outcome(stage, status, o, calls) ==
    [stage |-> stage, status |-> status, obj |-> o, func_connects |-> calls]

\* a connect that creates the origin on every call
OriginMissingAlways(origin_name, origin) == TRUE

\* whether connect must create the origin (it is not in pre.origin yet)
OriginMissing(origin_name, origin) == origin_name \notin DOMAIN origin

\* the filtered input connect registers on post
FilteredInput(type, pstc, pre, matrix) ==
    [type |-> type, pstc |-> pstc, pre |-> pre, matrix |-> matrix]

add_filtered_input(o, post, input) ==
    [o EXCEPT ![post].inputs = Append(@, input)]

\* pre.add_origin(origin_name, func): a new origin computing func
add_origin(o, pre, origin_name) ==
    [o EXCEPT ![pre].origin =
        [n \in (DOMAIN @) \cup {origin_name} |->
            IF n = origin_name THEN NewOrigin(1, origin_name) ELSE @[n]]]

\* the connect calls with func given that reached a pre node, as
\* <<node, name, k, created>>: the k-th such call on that node with that
\* function name, and whether it called add_origin (every call past the
\* second counts as the second)
CountCall(calls, id, origin_name, created) ==
    LET k == Cardinality({c \in calls : c[1] = id /\ c[2] = origin_name})
    IN  calls \cup {<<id, origin_name, IF k = 0 THEN 1 ELSE 2, created>>}

\* the decoded path, from the point where pre and post are resolved:
\* o1/calls1 are the objects and the add_origin calls once the origin of
\* pre is settled
DecodedFrom(a, pre, post, origin_name, o1, calls1) ==
    IF origin_name \notin DOMAIN o1[pre.id].origin
    THEN Outcome("wire", "KeyError", o1, calls1)
    ELSE IF post.tag # "node" \/ ~IsEnsemble(post.id)
    THEN Outcome("wire", "AttributeError", o1, calls1)
    ELSE LET dim_pre == o1[pre.id].origin[origin_name].dimensions
             dim_post == o1[post.id].dimensions
             transform ==
                 IF a.transform = None
                 THEN compute_transform(dim_pre, dim_post, a.weight,
                                        a.index_pre, a.index_post)
                 ELSE Return(a.transform.v)
         IN  IF transform.status # "ok"
             THEN Outcome("wire", transform.status, o1, calls1)
             ELSE Outcome("done", "ok",
                     add_filtered_input(o1, post.id,
                         FilteredInput("decoded", a.pstc,
                             <<pre.id, origin_name>>, transform.value)),
                     calls1)

Decoded(a, pre, post) ==
    IF pre.tag = "origin"
    THEN DecodedFrom(a, pre, post, pre.oname, obj, hist.func_connects)
    ELSE IF pre.tag = "None"
    THEN Outcome("wire", "AttributeError", obj, hist.func_connects)
    ELSE IF a.func # None
    THEN IF OriginMissing(a.func.v, obj[pre.id].origin)
         THEN IF ~IsEnsemble(pre.id)
              THEN Outcome("wire", "AttributeError", obj, hist.func_connects)
              ELSE DecodedFrom(a, pre, post, a.func.v,
                       add_origin(obj, pre.id, a.func.v),
                       CountCall(hist.func_connects, pre.id, a.func.v, TRUE))
         ELSE DecodedFrom(a, pre, post, a.func.v, obj,
                  CountCall(hist.func_connects, pre.id, a.func.v, FALSE))
    ELSE DecodedFrom(a, pre, post, IdentityName, obj, hist.func_connects)

\* an encoded path without the assert on the class of pre, taking the
\* spikes of whatever pre is
EncodedFromAny(a, pre, post) ==
    IF pre.tag = "None" \/ post.tag # "node" \/ ~IsEnsemble(post.id)
    THEN Outcome("wire", "AttributeError", obj, hist.func_connects)
    ELSE Outcome("done", "ok",
             add_filtered_input(obj, post.id,
                 FilteredInput("encoded", a.pstc, <<pre.id, <<>>>>,
                               a.decoded_weight_matrix.v)),
             hist.func_connects)

Encoded(a, pre, post) ==
    IF pre.tag = "node" /\ obj[pre.id].kind \in {"Input", "SimpleNode"}
    THEN Outcome("wire", "AssertionError", obj, hist.func_connects)
    ELSE IF pre.tag # "node" \/ ~IsEnsemble(pre.id)
    THEN Outcome("wire", "AttributeError", obj, hist.func_connects)
    ELSE IF post.tag # "node" \/ ~IsEnsemble(post.id)
    THEN Outcome("wire", "AttributeError", obj, hist.func_connects)
    ELSE Outcome("done", "ok",
             add_filtered_input(obj, post.id,
                 FilteredInput("encoded", a.pstc, <<pre.id, <<>>>>,
                               a.decoded_weight_matrix.v)),
             hist.func_connects)

ConnectOutcome(a) ==
    IF Contradicting(a)
    THEN Outcome("contract", "AssertionError", obj, hist.func_connects)
    ELSE LET pre == get_object(a.pre)
             post == get_object(a.post)
         IN  IF pre.status # "ok"
             THEN Outcome("resolve", pre.status, obj, hist.func_connects)
             ELSE IF post.status # "ok"
             THEN Outcome("resolve", post.status, obj, hist.func_connects)
             ELSE IF a.decoded_weight_matrix = None
             THEN Decoded(a, pre.value, post.value)
             ELSE Encoded(a, pre.value, post.value)

\* a connect that resets theano_tick only when it succeeds
ConnectTickOnSuccess(stage) == IF stage = "done" THEN None ELSE theano_tick

\* a connect that resets theano_tick before its opening asserts
ConnectTickEarly(stage) == None

\* theano_tick after a connect call that ended at the given stage: it is
\* reset right after the opening asserts
ConnectTick(stage) == IF stage = "contract" THEN theano_tick ELSE None

Connect(a) ==
    /\ pc = "idle"
    /\ LET r == ConnectOutcome(a)
       IN  /\ r.status = "ok" => NumConns < MaxConns
           /\ theano_tick' = ConnectTick(r.stage)
           /\ obj' = r.obj
           /\ ret' = Done("connect", r.stage, r.status, NoneRef)
           /\ hist' = [Touch(TRUE, r.status = "ok")
                          EXCEPT !.func_connects = r.func_connects]
    /\ UNCHANGED <<nodes, tick_nodes, run_time, pc, rl, ct_args, ct_result, cache, dec>>

-----------------------------------------------------------------------------
(* learn *)

add_learned_termination(o, post, pre, error, pstc, weight_matrix) ==
    [o EXCEPT ![post].learned =
        Append(@, [pre |-> pre, error |-> error, pstc |-> pstc,
                   weight_matrix |-> weight_matrix])]

\* theano_tick after learn: learn does not touch it
LearnTick == theano_tick

LearnOutcome(a) ==
    LET pre == get_object(a.pre)
        post == get_object(a.post)
        error == get_object(a.error)
    IN  IF pre.status # "ok" THEN Outcome("resolve", pre.status, obj, {})
        ELSE IF post.status # "ok" THEN Outcome("resolve", post.status, obj, {})
        ELSE IF error.status # "ok"
        THEN Outcome("resolve", error.status, obj, {})
        ELSE IF post.value.tag # "node" \/ ~IsEnsemble(post.value.id)
        THEN Outcome("wire", "AttributeError", obj, {})
        ELSE Outcome("done", "ok",
                 add_learned_termination(obj, post.value.id, pre.value,
                     error.value, a.pstc, None), {})

Learn(a) ==
    /\ pc = "idle"
    /\ LET r == LearnOutcome(a)
       IN  /\ r.status = "ok" => NumConns < MaxConns
           /\ obj' = r.obj
           /\ ret' = Done("learn", r.stage, r.status, NoneRef)
    /\ theano_tick' = LearnTick
    /\ hist' = Touch(FALSE, FALSE)
    /\ UNCHANGED <<nodes, tick_nodes, run_time, pc, rl, ct_args, ct_result, cache, dec>>

-----------------------------------------------------------------------------
(* run *)

\* int(x / y) for y > 0: Python's int() truncates towards zero
IntDiv(x, y) == IF x >= 0 THEN x \div y ELSE 0 - ((0 - x) \div y)

\* len(range(n))
RangeLen(n) == IF n > 0 THEN n ELSE 0

\* the number of timesteps of run(time)
RunSteps(time) == RangeLen(IntDiv(time, dt))

\* t = self.run_time + i * self.dt
StepTime(i) == run_time + i * dt

\* an inner loop that visits the nodes last to first
TickNodeAtReversed(j) == tick_nodes[Len(tick_nodes) - j]

\* the node the inner loop visits at its j-th iteration (from 0)
TickNodeAt(j) == tick_nodes[j + 1]

\* a run that advances run_time by the timesteps it executed
RunTimeAfterSteps(time) == run_time + RunSteps(time) * dt

\* self.run_time += time
RunTimeAfter(time) == run_time + time

\* if self.theano_tick is None: self.theano_tick = self.make_theano_tick()
\* : the number of make_theano_tick calls and the resulting theano_tick
RunCompile ==
    IF theano_tick = None THEN [calls |-> 1, tick |-> make_theano_tick]
    ELSE [calls |-> 0, tick |-> theano_tick]

\* an entry of the log of one timestep: who ran (a node of tick_nodes, or 0
\* for the fused step function) and the clock t it ran with
Event(who, t) == [who |-> who, t |-> t]

RunBegin(time) ==
    /\ pc = "idle"
    /\ run_time + time <= MaxRunTime
    /\ theano_tick' = RunCompile.tick
    /\ rl' = [time |-> time, steps |-> RunSteps(time), i |-> 0, j |-> 0,
              built |-> RunCompile.calls, fused |-> 0, log |-> <<>>,
              prev |-> <<>>]
    /\ pc' = IF RunSteps(time) > 0 THEN "loop" ELSE "end"
    /\ ret' = Done("run", "loop", "running", NoneRef)
    /\ UNCHANGED <<nodes, tick_nodes, run_time, obj, hist, ct_args, ct_result, cache, dec>>

\* one iteration of the inner loop: node.t = t; node.theano_tick().  The
\* clock node.t is read by nothing but the node's own tick, so it is kept
\* in the log of the timestep.
TickNode ==
    /\ pc = "loop"
    /\ rl.j < Len(tick_nodes)
    /\ rl' = [rl EXCEPT !.j = @ + 1,
                        !.log = Append(@, Event(TickNodeAt(rl.j), StepTime(rl.i)))]
    /\ UNCHANGED <<nodes, tick_nodes, theano_tick, run_time, obj, pc, ret, hist,
                   ct_args, ct_result, cache, dec>>

\* self.theano_tick(), closing one iteration of the outer loop
FusedStep ==
    /\ pc = "loop"
    /\ rl.j = Len(tick_nodes)
    /\ rl' = [rl EXCEPT !.i = @ + 1, !.j = 0, !.fused = @ + 1, !.log = <<>>,
                        !.prev = Append(rl.log, Event(0, StepTime(rl.i)))]
    /\ pc' = IF rl.i + 1 < rl.steps THEN "loop" ELSE "end"
    /\ UNCHANGED <<nodes, tick_nodes, theano_tick, run_time, obj, ret, hist,
                   ct_args, ct_result, cache, dec>>

RunEnd ==
    /\ pc = "end"
    /\ run_time' = RunTimeAfter(rl.time)
    /\ pc' = "idle"
    /\ rl' = NoRun
    /\ ret' = Done("run", "done", "ok", NoneRef)
    /\ hist' = [hist EXCEPT !.touched = FALSE, !.mutated = FALSE,
                            !.last_built = rl.built,
                            !.requested = @ + rl.time]
    /\ UNCHANGED <<nodes, tick_nodes, theano_tick, obj, ct_args, ct_result, cache, dec>>

-----------------------------------------------------------------------------
(* EnsembleOrigin.compute_decoders.  The cache module, the neuron classes  *)
(* and the Ensemble live outside the two source files; the cache is the    *)
(* get/set by key of the external interface.                               *)

MaxArray == 2
MaxSolves == 3

\* the class of ensemble.neurons: the two LIF models, and any other model
NeuronClasses == {"LIFNeuron", "LIFRateNeurons", "Other"}

\* "%d" % index
Decimal(i) == IF i = 0 THEN "0" ELSE Digits[i]

\* hash(tuple(...)): a number that depends on the elements and their order
RECURSIVE HashFrom(_, _, _)
HashFrom(t, k, acc) ==
    IF k > Len(t) THEN acc
    ELSE HashFrom(t, k + 1, (acc * 31 + t[k] + 1) % (2 ^ 16))

hash(t) == HashFrom(t, 1, 7)

\* '_eval%08x' % hash(tuple([tuple(x) for x in eval_points]))
EvalSuffix(points) ==
    <<"_eval", hash([r \in 1..Len(points) |-> hash(points[r])])>>

\* eval_points = np.array(eval_points), a one-dimensional list becoming
\* one row
Points1(l) == [tag |-> "points1", v |-> l]
Points2(m) == [tag |-> "points2", v |-> m]

AsArray(eval_points) ==
    IF eval_points.tag = "points1" THEN <<eval_points.v>> ELSE eval_points.v

\* self.make_samples(): the sample points drawn with the ensemble's seed
make_samples(self) == <<"samples", self.cache_key>>

\* the key of lines 56-75.  np.array copies its argument, so the array is
\* never the object self.ensemble.eval_points and the suffix is always added
\* when eval_points is given.
DecoderKey(self, eval_points) ==
    IF eval_points = None THEN <<self.cache_key>>
    ELSE <<self.cache_key>> \o EvalSuffix(AsArray(eval_points))

\* key + '_%d' % index
IndexKey(key, index) == key \o <<"_", Decimal(index)>>

\* cache.get_gamma_inv(key): the stored pair, or None
get_gamma_inv(key) == IF key \in DOMAIN cache THEN cache[key] ELSE None

\* cache.set_gamma_inv(key, data)
set_gamma_inv(key, data) ==
    [k \in (DOMAIN cache) \cup {key} |-> IF k = key THEN data ELSE cache[k]]

\* self.ensemeble.neurons.__class__ : EnsembleOrigin has the attribute
\* ensemble and no attribute ensemeble
ensemeble_neurons_class(self) == Raise("AttributeError")

\* the test of lines 117-118 and the branch it selects: "analytic" (the LIF
\* rate equation) or "simulate" (neuron.accumulate); the second operand of
\* the or is evaluated only when the first is false
ActivityPath(self) ==
    IF self.neurons = "LIFNeuron" THEN Return("analytic")
    ELSE LET second == ensemeble_neurons_class(self)
         IN  IF second.status # "ok" THEN second
             ELSE IF second.value = "LIFRateNeurons" THEN Return("analytic")
             ELSE Return("simulate")

\* counting one more event under a key, every count past the second being
\* the second
CountUp(counts, key) ==
    [k \in (DOMAIN counts) \cup {key} |->
        IF k # key THEN counts[k]
        ELSE IF key \in DOMAIN counts THEN 2 ELSE 1]

\* the (Ginv, A) pair computed from the points by the given path; the noise
\* added to A is drawn afresh, so every computation is a pair of its own
GammaInv(path, points, solve, index) ==
    [tag |-> "data", path |-> path, points |-> points, by |-> <<solve, index>>]

\* lines 56-108: the key and the evaluation points, or the exception for
\* points whose leading dimension is not the ensemble's
DecodersBegin(self, func, eval_points) ==
    /\ dec.pc = "idle"
    /\ dec.solves < MaxSolves
    /\ LET key == DecoderKey(self, eval_points)
           points == IF eval_points = None THEN make_samples(self)
                     ELSE AsArray(eval_points)
           call == [dec EXCEPT !.self = self, !.func = func,
                               !.eval_points = points, !.key = key,
                               !.index = 0, !.paths = <<>>,
                               !.decoders = <<>>, !.solves = @ + 1]
       IN  IF eval_points # None /\ Len(points) # self.dimensions
           THEN dec' = [call EXCEPT !.status = "Exception"]
           ELSE dec' = [call EXCEPT !.pc = "loop", !.status = "running",
                                    !.first = key \notin dec.seen,
                                    !.seen = @ \cup {key}]
    /\ UNCHANGED <<nodes, tick_nodes, theano_tick, run_time, obj, pc, rl, ret,
                   hist, ct_args, ct_result, cache>>

\* one iteration of the loop of lines 110-189
DecodersIndex ==
    /\ dec.pc = "loop"
    /\ LET index_key == IndexKey(dec.key, dec.index)
           data == get_gamma_inv(index_key)
           path == ActivityPath(dec.self)
           next == IF dec.index + 1 < dec.self.array_size THEN "loop" ELSE "end"
       IN  IF data # None
           THEN /\ dec' = [dec EXCEPT !.pc = next, !.index = @ + 1,
                                      !.paths = Append(@, "hit"),
                                      !.decoders = Append(@, <<data, dec.func>>)]
                /\ cache' = cache
           ELSE IF path.status # "ok"
           THEN /\ dec' = [dec EXCEPT !.pc = "idle", !.status = path.status]
                /\ cache' = cache
           ELSE LET computed == GammaInv(path.value, dec.eval_points,
                                         dec.solves, dec.index)
                IN  /\ cache' = set_gamma_inv(index_key, computed)
                    /\ dec' = [dec EXCEPT
                                  !.pc = next, !.index = @ + 1,
                                  !.paths = Append(@, path.value),
                                  !.decoders = Append(@, <<computed, dec.func>>),
                                  !.computed = CountUp(@, index_key),
                                  !.stored = CountUp(@, index_key)]
    /\ UNCHANGED <<nodes, tick_nodes, theano_tick, run_time, obj, pc, rl, ret,
                   hist, ct_args, ct_result>>

\* lines 191-193: self.decoders = ...; return
DecodersEnd ==
    /\ dec.pc = "end"
    /\ dec' = [dec EXCEPT !.pc = "idle", !.status = "ok"]
    /\ UNCHANGED <<nodes, tick_nodes, theano_tick, run_time, obj, pc, rl, ret,
                   hist, ct_args, ct_result, cache>>

-----------------------------------------------------------------------------
(* The network as a state machine *)

A == <<"A">>
B == <<"B">>

RunTimes == {1, 3, 4}

\* the options of connect: at most two of them differ from their defaults
Options ==
    {o \in [transform : {None, Given("matrix", <<<<3>>>>)},
            weight : {1, 2},
            index_pre : {None, IdxInt(0)},
            index_post : {None, IdxInt(0)},
            func : {None} \cup {Given("func", f) : f \in FuncNames},
            decoded_weight_matrix : {None, Given("matrix", <<<<5>>>>)}] :
        Cardinality({k \in DOMAIN o : o[k] # (IF k = "weight" THEN 1 ELSE None)})
            <= 2}

WithNames(o, pre, post) ==
    [pre |-> pre, post |-> post, pstc |-> pstc_default,
     transform |-> o.transform, weight |-> o.weight,
     index_pre |-> o.index_pre, index_post |-> o.index_post,
     func |-> o.func, decoded_weight_matrix |-> o.decoded_weight_matrix]

\* the options that choose the path of connect, alone or not at all
Wiring ==
    {o \in Options :
        /\ o.weight = 1 /\ o.index_pre = None /\ o.index_post = None
        /\ Cardinality({k \in {"transform", "func", "decoded_weight_matrix"} :
                           o[k] # None}) <= 1}

\* the connect calls of the wiring specification: each path between every
\* pair of names, and every contradicting pair of options
WireConnectArgs ==
    {WithNames(o, pre, post) :
        o \in Wiring,
        pre \in {A, B, <<"A", Colon, "f">>, <<"A", Colon, "B", Colon, "C">>},
        post \in {A, B}}
    \cup {WithNames(o, A, A) : o \in {x \in Options : Contradicting(x)}}

\* those that fail the opening asserts
ContradictingArgs == {a \in WireConnectArgs : Contradicting(a)}

\* the connect calls of the scheduling specification: a plain decoded
\* connection from either node, and one call with contradicting options
Plain == CHOOSE o \in Wiring :
             o.transform = None /\ o.func = None /\ o.decoded_weight_matrix = None

ConnectArgs ==
    {WithNames(Plain, pre, A) : pre \in {A, B}}
    \cup {WithNames([Plain EXCEPT !.transform = Given("matrix", <<<<3>>>>),
                                  !.weight = 2], A, A)}

LearnArgs ==
    [pre : {A, <<"A", Colon, "B", Colon, "C">>}, post : {A}, error : {A},
     pstc : {pstc_default}]

\* The scheduling specification: every call of the network, with the run
\* loop taken one node at a time
Next ==
    \/ Make(A)
    \/ Add(B)
    \/ MakeInput(B)
    \/ MakeProbe(None)
    \/ \E a \in ConnectArgs : Connect(a)
    \/ \E a \in LearnArgs : Learn(a)
    \/ \E time \in RunTimes : RunBegin(time)
    \/ TickNode
    \/ FusedStep
    \/ RunEnd

Spec == Init /\ [][Next]_vars

\* The wiring specification: every option of connect on a network of an
\* ensemble, an input and a simple node, compiled by a run of one timestep
WireRunTimes == {3}

NextWire ==
    \/ Make(A)
    \/ Add(B)
    \/ MakeInput(B)
    \/ \E a \in WireConnectArgs : Connect(a)
    \/ \E time \in WireRunTimes : RunBegin(time)
    \/ TickNode
    \/ FusedStep
    \/ RunEnd

SpecWire == Init /\ [][NextWire]_vars

\* The registry specification: the calls that register and resolve names
RegistryNames == {A, B, ProbeName(1)}

LookupNames ==
    {A, B, <<"A", Colon, "X">>, <<"A", Colon, "f">>,
     <<"A", Colon, "B", Colon, "C">>, <<"A", Colon, Colon, "X">>}

NextRegistry ==
    \/ \E name \in RegistryNames : Make(name)
    \/ \E name \in RegistryNames : Add(name)
    \/ \E name \in RegistryNames : MakeInput(name)
    \/ \E name \in {None} \cup {Given("name", n) : n \in RegistryNames} :
          MakeProbe(name)
    \/ \E name \in LookupNames : GetObject(name)

SpecRegistry == Init /\ [][NextRegistry]_vars

\* The transform specification: compute_transform applied to every
\* argument list within the bounds
Dims == 0..MaxDim

\* index values: in range, negative (counted from the end) and out of range
IndexValues == -1..MaxDim

RECURSIVE ListsUpTo(_)
ListsUpTo(n) ==
    IF n = 0 THEN {<<>>}
    ELSE LET shorter == ListsUpTo(n - 1)
         IN  shorter \cup {Append(l, k) : l \in {x \in shorter : Len(x) = n - 1},
                                          k \in IndexValues}

IndexArgs ==
    {None} \cup {IdxInt(k) : k \in IndexValues}
           \cup {IdxList(l) : l \in ListsUpTo(MaxIdxLen)}

TransformArgs ==
    [dim_pre : Dims, dim_post : Dims, weight : {0, 1, 2},
     index_pre : IndexArgs, index_post : IndexArgs]

Pending == [status |-> "pending", value |-> <<>>]

InitTransform ==
    /\ nodes = <<>>
    /\ tick_nodes = <<>>
    /\ theano_tick = None
    /\ run_time = 0
    /\ obj = <<>>
    /\ pc = "idle"
    /\ rl = NoRun
    /\ ret = Done("init", "done", "ok", NoneRef)
    /\ hist = [touched |-> FALSE, mutated |-> FALSE, last_built |-> -1,
               requested |-> 0, func_connects |-> {}]
    /\ ct_args \in TransformArgs
    /\ ct_result = Pending
    /\ cache = <<>>
    /\ dec = NoSolve

ComputeTransform ==
    /\ ct_result = Pending
    /\ ct_result' = compute_transform(ct_args.dim_pre, ct_args.dim_post,
                        ct_args.weight, ct_args.index_pre, ct_args.index_post)
    /\ UNCHANGED <<nodes, tick_nodes, theano_tick, run_time, obj, pc, rl, ret,
                   hist, ct_args, cache, dec>>

NextTransform == ComputeTransform

SpecTransform == InitTransform /\ [][NextTransform]_vars

\* The decoder specification: compute_decoders called for ensembles of
\* each neuron class, with and without a function and evaluation points
Ensembles ==
    {[cache_key |-> "lif", neurons |-> "LIFNeuron", array_size |-> MaxArray,
      dimensions |-> 1],
     [cache_key |-> "rate", neurons |-> "LIFRateNeurons", array_size |-> 1,
      dimensions |-> 1],
     [cache_key |-> "other", neurons |-> "Other", array_size |-> 1,
      dimensions |-> 1]}

DecoderFuncs == {None} \cup {Given("func", f) : f \in FuncNames}

EvalPointArgs ==
    {None, Points1(<<1, 2>>), Points2(<<<<1, 2>>>>), Points2(<<<<2, 1>>>>),
     Points2(<<<<1>>, <<2>>>>)}

NextDecoders ==
    \/ \E self \in Ensembles, func \in DecoderFuncs,
          eval_points \in EvalPointArgs :
          DecodersBegin(self, func, eval_points)
    \/ DecodersIndex
    \/ DecodersEnd

SpecDecoders == Init /\ [][NextDecoders]_vars

-----------------------------------------------------------------------------
(* Properties *)

\* C1: a theano_tick that is not None was compiled from the current nodes
\* and connections: every call that adds a node or a connection (make, add,
\* make_input, make_probe, connect, learn) leaves theano_tick None.
C1_MutationInvalidates ==
    /\ (ret.op \in {"make", "add", "make_input", "make_probe", "connect", "learn"}
           /\ ret.status = "ok") => theano_tick = None
    /\ theano_tick # None => theano_tick = make_theano_tick

\* C2: a run that follows an earlier run rebuilds the step function (calls
\* make_theano_tick once) when a make or a connect completed in between, and
\* the two runs together call make_theano_tick at most once when no make or
\* connect was called in between.
C2_RebuildOrReuse ==
    (pc # "idle" /\ hist.last_built >= 0) =>
        /\ hist.mutated => rl.built = 1
        /\ ~hist.touched => hist.last_built + rl.built <= 1

\* a third run rebuilds after a make or connect, the second run having
\* reused the step function of the first
C2_Witness ==
    /\ pc # "idle"
    /\ hist.last_built = 0
    /\ hist.mutated
    /\ rl.built = 1

\* C3 as stated: a connect call that fails leaves theano_tick unchanged.
C3_FailureKeepsTick ==
    [][(ret'.op = "connect" /\ ret'.status # "ok")
          => theano_tick' = theano_tick]_vars

\* C3: a connect call that fails at the opening check of its options leaves
\* theano_tick unchanged; a connect call that fails later (unknown name,
\* encoded connection from an Input or SimpleNode, a missing attribute) has
\* reset theano_tick to None.
C3_FailureAfterReset ==
    [][(ret'.op = "connect" /\ ret'.status # "ok")
          => theano_tick' = (IF ret'.stage = "contract" THEN theano_tick
                             ELSE None)]_vars

\* a connect call failed on an unknown name on a network compiled by the
\* last run and not touched by a completed make or connect since
C3_Witness ==
    /\ ret.op = "connect"
    /\ ret.stage = "resolve"
    /\ ret.status = "KeyError"
    /\ hist.last_built >= 0
    /\ ~hist.mutated
    /\ theano_tick = None

C6_TickOrder ==
    /\ pc = "loop" =>
          /\ rl.fused = rl.i
          /\ rl.j <= Len(tick_nodes)
          /\ rl.log = [k \in 1..rl.j |->
                          Event(tick_nodes[k], run_time + rl.i * dt)]
    /\ (pc \in {"loop", "end"} /\ rl.i > 0) =>
          rl.prev = [k \in 1..(Len(tick_nodes) + 1) |->
                        Event(IF k <= Len(tick_nodes) THEN tick_nodes[k] ELSE 0,
                              run_time + (rl.i - 1) * dt)]

\* the second timestep of a run with two tick nodes, both already run
C6_Witness ==
    /\ pc = "end"
    /\ rl.i = 1
    /\ Len(rl.prev) = 3
    /\ Len(tick_nodes) = 2
    /\ run_time > 0

\* C7 as stated: whenever compute_transform returns, the matrix is
\* dim_post x dim_pre and has exactly max(len(index_pre), len(index_post))
\* non-zero entries, each equal to weight.
C7_ExactCount ==
    ct_result.status = "ok" =>
        LET ipre == IndexList(ct_args.index_pre, ct_args.dim_pre)
            ipost == IndexList(ct_args.index_post, ct_args.dim_post)
            m == ct_result.value
            nonzero == {rc \in (1..ct_args.dim_post) \X (1..ct_args.dim_pre) :
                           m[rc[1]][rc[2]] # 0}
        IN  /\ Len(m) = ct_args.dim_post
            /\ \A r \in 1..Len(m) : Len(m[r]) = ct_args.dim_pre
            /\ Cardinality(nonzero) = Max(Len(ipre), Len(ipost))
            /\ \A rc \in nonzero : m[rc[1]][rc[2]] = ct_args.weight

\* C7: whenever compute_transform returns, the matrix is dim_post x dim_pre
\* and holds weight at every position (index_post[i % len(index_post)],
\* index_pre[i % len(index_pre)]), i < max(len(index_pre), len(index_post)),
\* a negative index counting from the end, and 0 everywhere else; so it has
\* as many non-zero entries as there are distinct positions when weight is
\* not 0 (at most the longer length, and exactly that with default
\* indices), and none when weight is 0.  With default indices and
\* dim_pre = dim_post it is weight times the identity.  It raises exactly
\* when the loop meets an empty index list or an index out of range.
C7_Transform ==
    ct_result # Pending =>
        LET ipre == IndexList(ct_args.index_pre, ct_args.dim_pre)
            ipost == IndexList(ct_args.index_post, ct_args.dim_post)
            n == Max(Len(ipre), Len(ipost))
            empty == n > 0 /\ (Len(ipre) = 0 \/ Len(ipost) = 0)
            at(i) == <<PyIndex(ipost[(i % Len(ipost)) + 1], ct_args.dim_post),
                       PyIndex(ipre[(i % Len(ipre)) + 1], ct_args.dim_pre)>>
            m == ct_result.value
            cells == (1..ct_args.dim_post) \X (1..ct_args.dim_pre)
            nonzero == {rc \in cells : m[rc[1]][rc[2]] # 0}
        IN  IF empty THEN ct_result.status = "ZeroDivisionError"
            ELSE IF \E i \in 0..(n - 1) : at(i)[1] = -1 \/ at(i)[2] = -1
            THEN ct_result.status = "IndexError"
            ELSE LET positions == {at(i) : i \in 0..(n - 1)}
                 IN  /\ ct_result.status = "ok"
                     /\ Len(m) = ct_args.dim_post
                     /\ \A r \in 1..Len(m) : Len(m[r]) = ct_args.dim_pre
                     /\ \A rc \in cells :
                            m[rc[1]][rc[2]] =
                                IF <<rc[1] - 1, rc[2] - 1>> \in positions
                                THEN ct_args.weight ELSE 0
                     /\ Cardinality(nonzero) =
                            IF ct_args.weight = 0 THEN 0
                            ELSE Cardinality(positions)
                     /\ Cardinality(nonzero) <= n
                     /\ (ct_args.index_pre = None /\ ct_args.index_post = None
                           /\ ct_args.weight # 0)
                            => Cardinality(nonzero) = n
                     /\ (ct_args.index_pre = None /\ ct_args.index_post = None
                           /\ ct_args.dim_pre = ct_args.dim_post)
                            => \A rc \in cells :
                                   m[rc[1]][rc[2]] =
                                       IF rc[1] = rc[2] THEN ct_args.weight
                                       ELSE 0

\* the call returned a matrix with fewer non-zero entries than the longer
\* index list: two iterations wrote the same position
C7_Witness ==
    /\ ct_result.status = "ok"
    /\ ct_args.weight = 2
    /\ ct_args.dim_pre = 2
    /\ ct_args.dim_post = 2
    /\ ct_args.index_pre = IdxList(<<0, 0>>)
    /\ ct_args.index_post = IdxInt(1)
    /\ ct_result.value = <<<<0, 0>>, <<2, 0>>>>

\* C8: get_object("A") returns the node registered as "A",
\* get_object("A:X") the origin "X" of node "A", and a name with more than
\* one ':' is rejected instead of returning a value.
C8_Resolution ==
    ret.op = "get_object" =>
        LET split == Split(ret.arg.v)
        IN  /\ (Len(split) = 1 /\ ret.arg.v \in DOMAIN nodes)
                => ret.status = "ok" /\ ret.value = NodeRef(nodes[ret.arg.v])
            /\ (Len(split) = 2 /\ split[1] \in DOMAIN nodes
                  /\ split[2] \in DOMAIN obj[nodes[split[1]]].origin)
                => ret.status = "ok"
                   /\ ret.value = OriginRef(nodes[split[1]], split[2])
            /\ Len(split) > 2 => ret.status # "ok"

\* C9: a make_probe call keeps every registered name on its node and every
\* element of tick_nodes, registers the new probe under one new name and
\* appends it to tick_nodes; the new name is the given one when that is
\* free, and "Probe<i>" for the smallest i >= 1 that is free when no name
\* is given.
C9_ProbeRegistered ==
    [][ret'.op = "make_probe" =>
          LET new == (DOMAIN nodes') \ (DOMAIN nodes)
              id == ret'.value.id
          IN  /\ \A n \in DOMAIN nodes : n \in DOMAIN nodes' /\ nodes'[n] = nodes[n]
              /\ Cardinality(DOMAIN nodes') = Cardinality(DOMAIN nodes) + 1
              /\ tick_nodes' = Append(tick_nodes, id)
              /\ id \notin Range(nodes) /\ id \notin Range(tick_nodes)
              /\ \A k \in 1..Len(obj) : obj'[k] = obj[k]
              /\ obj'[id].kind = "Probe"
              /\ \A n \in new : nodes'[n] = id /\ obj'[id].name = n
              /\ (ret'.arg # None /\ ret'.arg.v \notin DOMAIN nodes)
                    => new = {ret'.arg.v}
              /\ ret'.arg = None
                    => \E i \in 1..Len(Digits) :
                           /\ new = {ProbeName(i)}
                           /\ \A k \in 1..(i - 1) : ProbeName(k) \in DOMAIN nodes
       ]_vars

\* an unnamed probe was registered as Probe2 because Probe1 was the name of
\* an ensemble
C9_Witness ==
    /\ ret.op = "make_probe"
    /\ ret.arg = None
    /\ ProbeName(1) \in DOMAIN nodes
    /\ obj[nodes[ProbeName(1)]].kind = "Ensemble"
    /\ ProbeName(2) \in DOMAIN nodes
    /\ nodes[ProbeName(2)] = ret.value.id

\* C10: over the connect calls with func given that resolve pre to a node
\* and reach the origin test, add_origin is called on the first call for
\* that node and function name and on no later one, and the origins of a
\* node are its identity origin and the ones those first calls created: a
\* later call with the same function adds none.
C10_OriginOnce ==
    /\ \A c \in hist.func_connects : c[4] <=> c[3] = 1
    /\ \A id \in 1..Len(obj) :
           obj[id].kind # "Probe" =>
               DOMAIN obj[id].origin =
                   {IdentityName} \cup
                   {c[2] : c \in {x \in hist.func_connects : x[1] = id /\ x[4]}}

\* a second connect with the same function succeeded on the origin the
\* first one created
C10_Witness ==
    /\ ret.op = "connect"
    /\ ret.status = "ok"
    /\ \E c \in hist.func_connects :
           /\ c[3] = 2
           /\ ~c[4]
           /\ \E k \in 1..Len(obj) : \E n \in 1..Len(obj[k].inputs) :
                  obj[k].inputs[n].pre = <<c[1], c[2]>>

\* C11: over the compute_decoders calls with one key (the same ensemble
\* cache key and the same evaluation points), the activity matrix of each
\* index_key is computed at most once and stored at most once, the first
\* call misses at every index and leaves the pair stored, and every later
\* call hits at every index.
C11_ComputeOnce ==
    /\ \A k \in DOMAIN dec.computed : dec.computed[k] = 1
    /\ \A k \in DOMAIN dec.stored : dec.stored[k] = 1
    /\ (dec.pc = "idle" /\ dec.status \notin {"none", "Exception"}) =>
           /\ Len(dec.paths) = dec.self.array_size
           /\ \A i \in 1..Len(dec.paths) :
                  /\ IndexKey(dec.key, i - 1) \in DOMAIN cache
                  /\ dec.first <=> dec.paths[i] # "hit"

\* C12: a compute_decoders call with well-formed evaluation points returns
\* (it does not raise), and at every index where it missed it took the
\* analytic path when the neurons are LIFNeuron or LIFRateNeurons and the
\* simulation path for every other neuron class.
C12_PathByClass ==
    (dec.pc = "idle" /\ dec.status \notin {"none", "Exception"}) =>
        /\ dec.status = "ok"
        /\ Len(dec.decoders) = dec.self.array_size
        /\ \A i \in 1..Len(dec.paths) :
               dec.paths[i] # "hit" =>
                   dec.paths[i] =
                       IF dec.self.neurons \in {"LIFNeuron", "LIFRateNeurons"}
                       THEN "analytic" ELSE "simulate"

\* C13: a connect call that succeeds appends one filtered input to the
\* inputs of the post node and changes the inputs of no other node; the
\* input carries the pstc of the call and is decoded (the given or computed
\* transform, applied to an origin of pre) when decoded_weight_matrix is
\* None and encoded (the given weight matrix, applied to the neurons of
\* pre) otherwise; and the pre of every encoded input is an Ensemble,
\* never an Input or a SimpleNode.
C13_OneFilteredInput ==
    [][/\ \A id \in 1..Len(obj') : \A n \in 1..Len(obj'[id].inputs) :
              obj'[id].inputs[n].type = "encoded" =>
                  obj'[obj'[id].inputs[n].pre[1]].kind
                      \notin {"Input", "SimpleNode"}
       /\ (ret'.op = "connect" /\ ret'.status = "ok") =>
              \A a \in WireConnectArgs :
                  (~Contradicting(a) /\ Connect(a)) =>
                      LET post == nodes[a.post]
                          new == obj'[post].inputs[Len(obj'[post].inputs)]
                      IN  /\ obj'[post].inputs = Append(obj[post].inputs, new)
                          /\ \A k \in 1..Len(obj) :
                                 k # post => obj'[k].inputs = obj[k].inputs
                          /\ new.pstc = a.pstc
                          /\ new.type = IF a.decoded_weight_matrix = None
                                        THEN "decoded" ELSE "encoded"
                          /\ new.type = "decoded" =>
                                 /\ new.pre[2] \in DOMAIN obj'[new.pre[1]].origin
                                 /\ a.transform # None
                                        => new.matrix = a.transform.v
                          /\ new.type = "encoded" =>
                                 /\ new.pre = <<nodes[a.pre], <<>>>>
                                 /\ new.matrix = a.decoded_weight_matrix.v
      ]_vars

\* an encoded connection between ensembles was registered on a network
\* that also holds an Input or a SimpleNode
C13_Witness ==
    /\ ret.op = "connect"
    /\ ret.status = "ok"
    /\ \E k \in 1..Len(obj) : obj[k].kind \in {"Input", "SimpleNode"}
    /\ \E id \in 1..Len(obj) :
           /\ Len(obj[id].inputs) = 1
           /\ obj[id].inputs[1].type = "encoded"
           /\ obj[obj[id].inputs[1].pre[1]].kind = "Ensemble"

\* C14: after any sequence of make, add, make_input and make_probe calls,
\* every node of tick_nodes is the node registered in nodes under its own
\* name, every node ever registered is still registered (none was removed
\* or replaced), and no name was registered twice.
C14_RegistryConsistent ==
    /\ \A k \in 1..Len(tick_nodes) :
           /\ obj[tick_nodes[k]].name \in DOMAIN nodes
           /\ nodes[obj[tick_nodes[k]].name] = tick_nodes[k]
    /\ \A id \in 1..Len(obj) : id \in Range(nodes)
    /\ Cardinality(DOMAIN nodes) = Len(obj)

=============================================================================
